---- MODULE Spec2Model ----
(***************************************************************************)
(* A model of src/app.py: the prompt interpreter (extract_slide_count and  *)
(* the topic cleaning), the context enricher (fetch_search_snippets), the  *)
(* content generator's bounded retry loop (generate_slide_content), the    *)
(* deck renderer (create_presentation_with_template) and the handler of    *)
(* the "Generate Presentation" button that drives them.                    *)
(*                                                                         *)
(* Text is a sequence of one-character strings.  A backend response is a   *)
(* sequence of lexemes (braces, brackets, string literals, prose, ...),    *)
(* which is carved and parsed as the code carves and parses it.            *)
(***************************************************************************)
EXTENDS Integers, Sequences, FiniteSets, TLC

VARIABLES
    pc,             \* position of the button handler
    prompt,         \* user_prompt text area (line 201)
    use_live_info,  \* the "Include real-time data" checkbox (line 170)
    slide_count,    \* generate_slide_content: slide_count (line 52)
    clean_topic,    \* generate_slide_content: clean_topic (line 53)
    user_prompt,    \* generate_slide_content: user_prompt (lines 65-69)
    search,         \* what the search backend did: "not_run", "raised", "ok"
    attempt,        \* loop variable of the retry loop (line 71), 0-based
    log,            \* side effects so far: "call", "warn", "sleep"
    outcomes,       \* how each attempt so far ended
    lastResult,     \* what the backend gave to the latest call
    slides,         \* the value generate_slide_content returned
    error,          \* the exception that ended the request, or "none"
    tmp_created,    \* whether NamedTemporaryFile was created (line 233)
    template,       \* the template create_presentation_with_template opened
    deck            \* the deck saved at the destination path, or <<>>

vars == <<pc, prompt, use_live_info, slide_count, clean_topic, user_prompt,
          search, attempt, log, outcomes, lastResult, slides, error,
          tmp_created, template, deck>>

(***************************************************************************)
(* Program constants.                                                      *)
(***************************************************************************)
DEFAULT_SLIDES == 7
MAX_SLIDES == 20
MAX_ATTEMPTS_OneMore == 3 + 1
MAX_ATTEMPTS == 3
SNIPPET_COUNT == 5
\* int() refuses a string of more digits than this (the interpreter's
\* sys.int_info.default_max_str_digits)
INT_MAX_STR_DIGITS == 4300

(***************************************************************************)
(* Bounds of the model.                                                    *)
(***************************************************************************)
MaxPieces == 4      \* a prompt is at most this many pieces
MaxExtra == 2       \* a long response has up to MAX_SLIDES + MaxExtra entries
MaxLayouts == 2     \* a template has at most this many layouts
MaxPre == 2         \* a template has at most this many pre-existing slides

(***************************************************************************)
(* Text.                                                                   *)
(***************************************************************************)
Digits == {"0", "1", "2", "3", "4", "5", "6", "7", "8", "9"}
DigitSeq == <<"0", "1", "2", "3", "4", "5", "6", "7", "8", "9">>
\* the characters str.strip() removes, of those a string of the model can
\* hold: space, tab, line feed, carriage return, form feed, and (written
\* raw) the vertical tab and the separators \x1c, \x1d, \x1e and \x1f.  The
\* others (\x85, \xa0 and the Unicode spaces) are not single characters of
\* a string of the model.
VT == ""
FS == ""
GS == ""
RS == ""
US == ""
Whitespace == {" ", "\t", "\n", "\r", "\f", VT, FS, GS, RS, US}
Separators == {"-", " "}
UpperSeq == <<"A", "B", "C", "D", "E", "F", "G", "H", "I", "J", "K", "L", "M",
              "N", "O", "P", "Q", "R", "S", "T", "U", "V", "W", "X", "Y", "Z">>
LowerSeq == <<"a", "b", "c", "d", "e", "f", "g", "h", "i", "j", "k", "l", "m",
              "n", "o", "p", "q", "r", "s", "t", "u", "v", "w", "x", "y", "z">>
SLIDE == <<"s", "l", "i", "d", "e">>

\* str.lower() on one (ASCII) character
LowerChar(c) ==
    IF \E i \in 1..26 : UpperSeq[i] = c
    THEN LowerSeq[CHOOSE i \in 1..26 : UpperSeq[i] = c]
    ELSE c

\* str.lower()
Lower(s) == [i \in 1..Len(s) |-> LowerChar(s[i])]

\* the first index at or after i whose character is not in cls (greedy cls*)
SkipWhile(s, i, cls) ==
    CHOOSE j \in i..(Len(s) + 1) :
        /\ j > Len(s) \/ s[j] \notin cls
        /\ \A m \in i..(j - 1) : s[m] \in cls

StartsWithAt(s, i, w) ==
    /\ i + Len(w) - 1 <= Len(s)
    /\ SubSeq(s, i, i + Len(w) - 1) = w

Reverse(s) == [i \in 1..Len(s) |-> s[Len(s) + 1 - i]]

\* str.strip(): the whitespace at both ends goes
Strip(s) ==
    LET a == SkipWhile(s, 1, Whitespace)
        b == Len(s) + 1 - SkipWhile(Reverse(s), 1, Whitespace)
    IN  IF a > Len(s) THEN <<>> ELSE SubSeq(s, a, b)

(***************************************************************************)
(* Integers.  An integer of Python has no width: int() gives it here as    *)
(* its decimal numeral, the sequence of its digits without leading zeros,  *)
(* and min and max compare numerals.                                       *)
(***************************************************************************)
DigitVal(c) == (CHOOSE i \in 1..10 : DigitSeq[i] = c) - 1

\* the numeral of a small natural number
RECURSIVE Numeral(_)
Numeral(n) ==
    IF n < 10 THEN <<DigitSeq[n + 1]>>
    ELSE Numeral(n \div 10) \o <<DigitSeq[(n % 10) + 1]>>

\* the number a short numeral stands for
RECURSIVE NumValue(_)
NumValue(ds) ==
    IF ds = <<>> THEN 0
    ELSE 10 * NumValue(SubSeq(ds, 1, Len(ds) - 1)) + DigitVal(ds[Len(ds)])

\* a < b on numerals
NumLess(a, b) ==
    \/ Len(a) < Len(b)
    \/ /\ Len(a) = Len(b)
       /\ \E i \in 1..Len(a) :
              /\ DigitVal(a[i]) < DigitVal(b[i])
              /\ \A j \in 1..(i - 1) : a[j] = b[j]

NumMin(a, b) == IF NumLess(b, a) THEN b ELSE a
NumMax(a, b) == IF NumLess(a, b) THEN b ELSE a

\* int() of a run of digits: [exc, val].  A run of more than
\* INT_MAX_STR_DIGITS digits (leading zeros counted) is a ValueError.
ParseInt(ds) ==
    IF Len(ds) > INT_MAX_STR_DIGITS THEN [exc |-> "ValueError", val |-> <<>>]
    ELSE LET z == SkipWhile(ds, 1, {"0"})
         IN  [exc |-> "none",
              val |-> IF z > Len(ds) THEN <<"0">> ELSE SubSeq(ds, z, Len(ds))]

Min(a, b) == IF a <= b THEN a ELSE b
Max(a, b) == IF a >= b THEN a ELSE b

(***************************************************************************)
(* Prompt interpreter.                                                     *)
(***************************************************************************)
\* (\d+)[- ]*slide tried at position i of s: the index just after the match,
\* or 0 when there is none.  \d+ and [- ]* are greedy, and giving back a
\* character never helps: the character given back is a digit, a hyphen or
\* a space, and the pattern goes on with "s".
CountMatchEnd(s, i) ==
    IF i > Len(s) \/ s[i] \notin Digits THEN 0
    ELSE LET j == SkipWhile(s, i, Digits)
             k == SkipWhile(s, j, Separators)
         IN  IF StartsWithAt(s, k, SLIDE) THEN k + Len(SLIDE) ELSE 0

\* re.search: the leftmost position with a match, or 0
ReSearch(s) ==
    IF \E i \in 1..Len(s) : CountMatchEnd(s, i) # 0
    THEN CHOOSE i \in 1..Len(s) :
             /\ CountMatchEnd(s, i) # 0
             /\ \A j \in 1..(i - 1) : CountMatchEnd(s, j) = 0
    ELSE 0

\* match.group(1)
Group1(s, i) == SubSeq(s, i, SkipWhile(s, i, Digits) - 1)

\* lines 36-41: [exc, val]
extract_slide_count(p) ==
    LET s == Lower(p)
        i == ReSearch(s)
    IN  IF i # 0
        THEN LET count == ParseInt(Group1(s, i))
             IN  IF count.exc # "none" THEN [exc |-> count.exc, val |-> 0]
                 ELSE [exc |-> "none",
                       val |-> NumValue(NumMin(NumMax(Numeral(1), count.val),
                                               Numeral(MAX_SLIDES)))]
        ELSE [exc |-> "none", val |-> DEFAULT_SLIDES]

\* \d+[- ]*slide[s]* with re.IGNORECASE tried at position i of s
RemoveMatchEnd(s, i) ==
    LET e == CountMatchEnd(Lower(s), i)
    IN  IF e = 0 THEN 0 ELSE SkipWhile(Lower(s), e, {"s"})

\* re.sub(pattern, '', s): one pass, left to right, over the original text
RECURSIVE ReSub(_, _)
ReSub(s, i) ==
    IF i > Len(s) THEN <<>>
    ELSE LET e == RemoveMatchEnd(s, i)
         IN  IF e # 0 THEN ReSub(s, e) ELSE <<s[i]>> \o ReSub(s, i + 1)

CleanTopic(p) == Strip(ReSub(p, 1))

(***************************************************************************)
(* Backend responses.  The text of a response is a sequence of lexemes     *)
(* [k, v]: k is the kind and v the characters of a string literal, a       *)
(* number, a run of whitespace or a word of prose.  A brace in the text is *)
(* a lexeme of its own, inside the JSON body or in the prose around it.    *)
(***************************************************************************)
Tok(kind, chars) == [k |-> kind, v |-> chars]
LB == Tok("lbrace", <<"{">>)
RB == Tok("rbrace", <<"}">>)
LK == Tok("lbrack", <<"[">>)
RK == Tok("rbrack", <<"]">>)
CO == Tok("colon", <<":">>)
CM == Tok("comma", <<",">>)
WS == Tok("ws", <<" ">>)
NL == Tok("ws", <<"\n">>)
NULLT == Tok("null", <<"n", "u", "l", "l">>)
StrT(chars) == Tok("str", chars)
NumT(chars) == Tok("num", chars)
Prose(chars) == Tok("text", chars)

K_slides == <<"s", "l", "i", "d", "e", "s">>
K_title == <<"t", "i", "t", "l", "e">>
K_content == <<"c", "o", "n", "t", "e", "n", "t">>
Untitled == <<"U", "n", "t", "i", "t", "l", "e", "d">>

Kinds == {"lbrace", "rbrace", "lbrack", "rbrack", "colon", "comma",
          "str", "num", "null", "ws", "text"}

\* the first index at or after i (the last at or before i) whose lexeme is
\* of one of the kinds, or Len(t) + 1 (or 0) when there is none
RECURSIVE ScanUp(_, _, _), ScanDown(_, _, _)
ScanUp(t, i, kinds) ==
    IF i > Len(t) \/ t[i].k \in kinds THEN i ELSE ScanUp(t, i + 1, kinds)
ScanDown(t, i, kinds) ==
    IF i < 1 \/ t[i].k \in kinds THEN i ELSE ScanDown(t, i - 1, kinds)

\* content.strip(): whitespace lexemes at both ends go
StripToks(t) ==
    SubSeq(t, ScanUp(t, 1, Kinds \ {"ws"}), ScanDown(t, Len(t), Kinds \ {"ws"}))

\* content.find('{'): 0-based, -1 when absent
Find(t, kind) ==
    LET i == ScanUp(t, 1, {kind})
    IN  IF i > Len(t) THEN -1 ELSE i - 1

\* content.rfind('}'): 0-based, -1 when absent
RFind(t, kind) == ScanDown(t, Len(t), {kind}) - 1

\* content[a:b] for 0 <= a, 0 <= b
Slice(t, a, b) == SubSeq(t, a + 1, Min(b, Len(t)))

(***************************************************************************)
(* json.loads over lexemes.  A parsed value is a record tagged by t:       *)
(*   "obj" (items: the members in order, as [key, val]), "arr" (items),    *)
(*   "str" (s), "num" (s), "null".                                         *)
(* A parse result is [ok, val, next], next the index after the value.      *)
(***************************************************************************)
JNull == [t |-> "null"]
JStr(chars) == [t |-> "str", s |-> chars]
JNum(chars) == [t |-> "num", s |-> chars]
JArr(items) == [t |-> "arr", items |-> items]
JObj(items) == [t |-> "obj", items |-> items]
ParseFail == [ok |-> FALSE, val |-> JNull, next |-> 0]
ParseOk(v, n) == [ok |-> TRUE, val |-> v, next |-> n]

RECURSIVE SkipWs(_, _)
SkipWs(t, i) == IF i <= Len(t) /\ t[i].k = "ws" THEN SkipWs(t, i + 1) ELSE i

KindAt(t, i) == IF i <= Len(t) THEN t[i].k ELSE "eof"

RECURSIVE ParseValue(_, _), ParseMembers(_, _, _, _), ParseElements(_, _, _, _)

\* a value starting at or after i
ParseValue(t, i) ==
    LET j == SkipWs(t, i)
        kind == KindAt(t, j)
    IN  CASE kind = "str" -> ParseOk(JStr(t[j].v), j + 1)
          [] kind = "num" -> ParseOk(JNum(t[j].v), j + 1)
          [] kind = "null" -> ParseOk(JNull, j + 1)
          [] kind = "lbrace" -> ParseMembers(t, j + 1, <<>>, TRUE)
          [] kind = "lbrack" -> ParseElements(t, j + 1, <<>>, TRUE)
          [] OTHER -> ParseFail

\* the members of an object, after "{" (first) or after "," (not first)
ParseMembers(t, i, acc, first) ==
    LET j == SkipWs(t, i)
    IN  IF first /\ KindAt(t, j) = "rbrace" THEN ParseOk(JObj(acc), j + 1)
        ELSE IF KindAt(t, j) # "str" THEN ParseFail
        ELSE LET c == SkipWs(t, j + 1)
             IN  IF KindAt(t, c) # "colon" THEN ParseFail
                 ELSE LET r == ParseValue(t, c + 1)
                      IN  IF ~r.ok THEN ParseFail
                          ELSE LET e == SkipWs(t, r.next)
                                   more == Append(acc, [key |-> t[j].v, val |-> r.val])
                               IN  CASE KindAt(t, e) = "comma" ->
                                            ParseMembers(t, e + 1, more, FALSE)
                                     [] KindAt(t, e) = "rbrace" ->
                                            ParseOk(JObj(more), e + 1)
                                     [] OTHER -> ParseFail

\* the elements of an array, after "[" (first) or after "," (not first)
ParseElements(t, i, acc, first) ==
    LET j == SkipWs(t, i)
    IN  IF first /\ KindAt(t, j) = "rbrack" THEN ParseOk(JArr(acc), j + 1)
        ELSE LET r == ParseValue(t, j)
             IN  IF ~r.ok THEN ParseFail
                 ELSE LET e == SkipWs(t, r.next)
                          more == Append(acc, r.val)
                      IN  CASE KindAt(t, e) = "comma" ->
                                   ParseElements(t, e + 1, more, FALSE)
                            [] KindAt(t, e) = "rbrack" ->
                                   ParseOk(JArr(more), e + 1)
                            [] OTHER -> ParseFail

\* json.loads: one value and nothing but whitespace after it
JsonLoads(t) ==
    LET r == ParseValue(t, 1)
    IN  IF r.ok /\ SkipWs(t, r.next) > Len(t) THEN r ELSE ParseFail

\* key in d / d[key] / d.get(key, default) on a parsed object: the last
\* member with the key wins
HasKey(d, key) == \E i \in 1..Len(d.items) : d.items[i].key = key
GetKey(d, key) ==
    d.items[CHOOSE i \in 1..Len(d.items) :
                /\ d.items[i].key = key
                /\ \A j \in 1..Len(d.items) : d.items[j].key = key => j <= i].val
GetOr(d, key, default) == IF HasKey(d, key) THEN GetKey(d, key) ELSE default

\* "for x in v": a list gives its elements, a string its characters, a dict
\* its keys (once each); None and numbers are not iterable (TypeError)
RECURSIVE DictKeys(_, _, _)
DictKeys(items, i, acc) ==
    IF i > Len(items) THEN acc
    ELSE IF \E j \in 1..Len(acc) : acc[j] = JStr(items[i].key)
         THEN DictKeys(items, i + 1, acc)
         ELSE DictKeys(items, i + 1, Append(acc, JStr(items[i].key)))

Iterable(v) == v.t \in {"arr", "str", "obj"}
Iter(v) ==
    CASE v.t = "arr" -> v.items
      [] v.t = "str" -> [i \in 1..Len(v.s) |-> JStr(<<v.s[i]>>)]
      [] v.t = "obj" -> DictKeys(v.items, 1, <<>>)
      [] OTHER -> <<>>

(***************************************************************************)
(* Content generator: what one attempt makes of the backend's result.      *)
(***************************************************************************)
\* [c.strip() for c in v if c.strip()] over the items of an iterable:
\* exc is "AttributeError" when an item has no strip (it is not a string)
RECURSIVE Bullets(_, _, _)
Bullets(items, i, acc) ==
    IF i > Len(items) THEN [exc |-> "none", val |-> acc]
    ELSE IF items[i].t # "str" THEN [exc |-> "AttributeError", val |-> <<>>]
    ELSE IF Strip(items[i].s) = <<>> THEN Bullets(items, i + 1, acc)
    ELSE Bullets(items, i + 1, Append(acc, Strip(items[i].s)))

\* SlideOf without the test of the title in line 95
SlideOf_AnyTitle(entry) ==
    LET none == [title |-> <<>>, content |-> <<>>]
        raise(e) == [exc |-> e, keep |-> FALSE, slide |-> none]
    IN  IF entry.t # "obj" THEN raise("AttributeError")
        ELSE LET tv == GetOr(entry, K_title, JStr(Untitled))
                 cv == GetOr(entry, K_content, JArr(<<>>))
             IN  IF tv.t # "str" THEN raise("AttributeError")
                 ELSE IF ~Iterable(cv) THEN raise("TypeError")
                 ELSE LET b == Bullets(Iter(cv), 1, <<>>)
                          title == Strip(tv.s)
                      IN  IF b.exc # "none" THEN raise(b.exc)
                          ELSE [exc |-> "none",
                                keep |-> b.val # <<>>,
                                slide |-> [title |-> title, content |-> b.val]]

\* the body of "for slide in data['slides']" (lines 93-96) for one entry:
\* [exc, keep, slide]
SlideOf(entry) ==
    LET none == [title |-> <<>>, content |-> <<>>]
        raise(e) == [exc |-> e, keep |-> FALSE, slide |-> none]
    IN  IF entry.t # "obj" THEN raise("AttributeError")
        ELSE LET tv == GetOr(entry, K_title, JStr(Untitled))
                 cv == GetOr(entry, K_content, JArr(<<>>))
             IN  IF tv.t # "str" THEN raise("AttributeError")
                 ELSE IF ~Iterable(cv) THEN raise("TypeError")
                 ELSE LET b == Bullets(Iter(cv), 1, <<>>)
                          title == Strip(tv.s)
                      IN  IF b.exc # "none" THEN raise(b.exc)
                          ELSE [exc |-> "none",
                                keep |-> title # <<>> /\ b.val # <<>>,
                                slide |-> [title |-> title, content |-> b.val]]

\* the loop of lines 91-96: [exc, val], val the list built
RECURSIVE BuildSlides(_, _, _)
BuildSlides(entries, i, acc) ==
    IF i > Len(entries) THEN [exc |-> "none", val |-> acc]
    ELSE LET r == SlideOf(entries[i])
         IN  IF r.exc # "none" THEN [exc |-> r.exc, val |-> <<>>]
             ELSE BuildSlides(entries, i + 1,
                              IF r.keep THEN Append(acc, r.slide) ELSE acc)

\* slides, not cut
Truncate_Not(sl) == sl

\* slides[:MAX_SLIDES]
Truncate(sl) == SubSeq(sl, 1, Min(Len(sl), MAX_SLIDES))

Outcome(kind, exc, sl) == [kind |-> kind, exc |-> exc, slides |-> sl]

\* lines 83-99 on the response text
ProcessContent(text) ==
    LET content == StripToks(text)
        json_start == Find(content, "lbrace")
        json_end == RFind(content, "rbrace") + 1
    IN  IF json_start = -1 \/ json_end = 0
        THEN Outcome("no_braces", "none", <<>>)
        ELSE LET data == JsonLoads(Slice(content, json_start, json_end))
             IN  IF ~data.ok THEN Outcome("decode_error", "JSONDecodeError", <<>>)
                 ELSE IF ~HasKey(data.val, K_slides)
                 THEN Outcome("key_error", "KeyError", <<>>)
                 ELSE LET sv == GetKey(data.val, K_slides)
                      IN  IF ~Iterable(sv) THEN Outcome("raised", "TypeError", <<>>)
                          ELSE LET b == BuildSlides(Iter(sv), 1, <<>>)
                               IN  IF b.exc # "none"
                                   THEN Outcome("raised", b.exc, <<>>)
                                   ELSE IF b.val # <<>>
                                   THEN Outcome("returned", "none", Truncate(b.val))
                                   ELSE Outcome("no_valid_slides", "none", <<>>)

\* AttemptOutcome with an except clause that catches every exception of the
\* backend call
AttemptOutcome_CatchAll(result) ==
    CASE result.status = "api_error" -> Outcome("key_error", "APIError", <<>>)
      [] result.status = "missing_choices" -> Outcome("key_error", "KeyError", <<>>)
      [] result.status = "null_content" -> Outcome("raised", "AttributeError", <<>>)
      [] OTHER -> ProcessContent(result.content)

\* lines 73-99 on what the backend call gave: the call raised (status
\* "api_error"), or returned a response without the "choices" key, with a
\* null message content, or with text
AttemptOutcome(result) ==
    CASE result.status = "api_error" -> Outcome("raised", "APIError", <<>>)
      [] result.status = "missing_choices" -> Outcome("key_error", "KeyError", <<>>)
      [] result.status = "null_content" -> Outcome("raised", "AttributeError", <<>>)
      [] OTHER -> ProcessContent(result.content)

\* the except clause of line 100: these outcomes warn and sleep
Noticed(kind) == kind \in {"decode_error", "key_error"}
\* the outcomes after which the loop goes on to the next attempt
Retried(kind) == kind \in {"no_braces", "decode_error", "key_error", "no_valid_slides"}

(***************************************************************************)
(* The responses the backend is let to give.                               *)
(***************************************************************************)
RECURSIVE JoinComma(_)
JoinComma(parts) ==
    IF parts = <<>> THEN <<>>
    ELSE IF Len(parts) = 1 THEN parts[1]
    ELSE parts[1] \o <<CM, WS>> \o JoinComma(Tail(parts))

Member(key, val) == <<StrT(key), CO, WS>> \o val
ObjText(members) == <<LB>> \o JoinComma(members) \o <<RB>>
ArrText(elems) == <<LK>> \o JoinComma(elems) \o <<RK>>
StrText(chars) == <<StrT(chars)>>
StrList(strs) == ArrText([i \in 1..Len(strs) |-> StrText(strs[i])])

\* {"title": title, "content": [bullets]}
EntryText(title, bullets) ==
    ObjText(<<Member(K_title, StrText(title)), Member(K_content, StrList(bullets))>>)

\* {"slides": [entries]}
SlidesText(entries) == ObjText(<<Member(K_slides, ArrText(entries))>>)

eGoodA == EntryText(<<"A">>, << <<"x">>, <<" ", "y">> >>)
eGoodB == EntryText(<<VT, "B", "\f">>, << <<"\f", " ", FS>>, <<"\t", "z", US>> >>)
eEmptyTitle == EntryText(<<>>, << <<"x">> >>)
eBlankTitle == EntryText(<<" ", "\n", "\f", GS>>, << <<"x">> >>)
eNoTitle == ObjText(<<Member(K_content, StrList(<< <<"u">> >>))>>)
eNoContent == ObjText(<<Member(K_title, StrText(<<"C">>))>>)
eBlankBullets == EntryText(<<"C">>, << <<" ">>, <<>>, <<"\f">>, <<VT, RS>> >>)
eNotObject == <<NumT(<<"7">>)>>
eNumTitle ==
    ObjText(<<Member(K_title, <<NumT(<<"5">>)>>), Member(K_content, StrList(<< <<"x">> >>))>>)
eNullBullet ==
    ObjText(<<Member(K_title, StrText(<<"D">>)), Member(K_content, ArrText(<< <<NULLT>> >>))>>)
eStrContent ==
    ObjText(<<Member(K_title, StrText(<<"E">>)), Member(K_content, StrText(<<"p", " ", "q">>))>>)
eNumContent ==
    ObjText(<<Member(K_title, StrText(<<"F">>)), Member(K_content, <<NumT(<<"3">>)>>)>>)
eNumbered(i) == EntryText(<<"T">> \o Numeral(i), << <<"b">> \o Numeral(i) >>)

Sorry == Prose(<<"S", "o", "r", "r", "y">>)
Sure == Prose(<<"S", "u", "r", "e", ":">>)

ShortTexts ==
    { <<Sorry>>,                                               \* no brace at all
      <<Sorry, WS, LB, StrT(K_slides), CO>>,                   \* no closing brace
      <<Sorry, RB>>,                                           \* no opening brace
      <<RB, WS, Sorry, WS, LB>>,                               \* last } before first {
      <<NL, Sure, WS>> \o SlidesText(<<eGoodA, eGoodB>>) \o <<NL, Sorry, NL>>,
      <<Sure, LB, Sorry, RB, WS>> \o SlidesText(<<eGoodA>>),   \* braces in the prose
      ObjText(<<Member(<<"d", "e", "c", "k">>, ArrText(<<eGoodA>>))>>),
      <<LB, StrT(K_slides), CO, LK>> \o eGoodA \o <<CM>>,      \* cut short
      SlidesText(<<>>),
      SlidesText(<<eEmptyTitle, eBlankTitle, eNoContent, eBlankBullets>>),
      SlidesText(<<eGoodA, eEmptyTitle, eNoContent, eGoodB, eBlankBullets>>),
      SlidesText(<<eNoTitle, eGoodA>>),
      SlidesText(<<eGoodA, eNotObject>>),
      SlidesText(<<eGoodB, eNumTitle>>),
      SlidesText(<<eGoodA, eNullBullet>>),
      SlidesText(<<eNumContent>>),
      SlidesText(<<eStrContent>>),
      ObjText(<<Member(K_slides, <<NULLT>>)>>),
      ObjText(<<Member(K_slides, StrText(<<>>))>>),
      ObjText(<<Member(K_slides, ArrText(<<eGoodA>>)), Member(K_slides, ArrText(<<eGoodB>>))>>) }

\* n numbered entries after the entries of lead
LongText(lead, n) == SlidesText(lead \o [i \in 1..n |-> eNumbered(i)])
LongTexts ==
    { LongText(lead, n) : lead \in {<<>>, <<eEmptyTitle>>},
                          n \in (MAX_SLIDES - 1)..(MAX_SLIDES + MaxExtra) }

TextResult(text) == [status |-> "ok", content |-> text]
BackendResults ==
    { TextResult(t) : t \in ShortTexts \cup LongTexts }
    \cup { [status |-> st, content |-> <<>>] :
               st \in {"api_error", "missing_choices", "null_content"} }
NoResult == [status |-> "none", content |-> <<>>]

(***************************************************************************)
(* Context enricher.                                                       *)
(***************************************************************************)
\* a search result is a dict that may have a "body"
WithBody(b) == [has_body |-> TRUE, body |-> b]
NoBody == [has_body |-> FALSE, body |-> ""]
SearchOutcomes ==
    { [raised |-> TRUE, results |-> <<>>],
      [raised |-> FALSE, results |-> <<>>],
      [raised |-> FALSE, results |-> <<NoBody>>],
      [raised |-> FALSE, results |-> <<NoBody, WithBody("solar grows"), WithBody("")>>],
      [raised |-> FALSE,
       results |-> [i \in 1..(SNIPPET_COUNT + 1) |->
                        WithBody(IF i % 2 = 1 THEN "wind" ELSE "hydro")]] }

RECURSIVE Bodies(_)
Bodies(results) ==
    IF results = <<>> THEN <<>>
    ELSE (IF Head(results).has_body THEN <<Head(results).body>> ELSE <<>>)
         \o Bodies(Tail(results))

\* fetch_search_snippets without its except clause
fetch_search_snippets_uncaught(o) ==
    IF o.raised THEN [exc |-> "SearchError", val |-> <<>>]
    ELSE [exc |-> "none",
          val |-> SubSeq(Bodies(o.results), 1, Min(Len(Bodies(o.results)), SNIPPET_COUNT))]

\* fetch_search_snippets with count left at its default: [exc, val]
fetch_search_snippets(o) ==
    IF o.raised THEN [exc |-> "none", val |-> <<>>]
    ELSE [exc |-> "none",
          val |-> SubSeq(Bodies(o.results), 1, Min(Len(Bodies(o.results)), SNIPPET_COUNT))]

\* user_prompt is kept as the fragments whose concatenation is the string
BasePrompt(topic) == <<"Create presentation about: ">> \o topic

RECURSIVE ContextLines(_)
ContextLines(snippets) ==
    IF snippets = <<>> THEN <<>>
    ELSE IF Len(snippets) = 1 THEN <<"- ", Head(snippets)>>
    ELSE <<"- ", Head(snippets), "\n">> \o ContextLines(Tail(snippets))

WithContext(up, snippets) ==
    IF snippets # <<>>
    THEN up \o <<"\n\nCurrent context:\n">> \o ContextLines(snippets)
    ELSE up

(***************************************************************************)
(* Deck renderer.  A layout is the sequence of its placeholders' types; a  *)
(* template is its layouts and the slides it already holds.                *)
(***************************************************************************)
PH_TITLE == 1
PH_BODY == 2
PH_CENTER_TITLE == 3
PH_SUBTITLE == 4
PH_OBJECT == 7
PH_SLIDE_NUMBER == 13
PH_FOOTER == 15
PH_DATE == 16

HasType(layout, ty) == \E i \in 1..Len(layout) : layout[i] = ty
Suitable(layout) == HasType(layout, PH_TITLE) /\ HasType(layout, PH_BODY)

\* lines 109-115: the index of the first suitable layout, or 0
ContentLayout(tpl) ==
    LET ok == {i \in 1..Len(tpl.layouts) : Suitable(tpl.layouts[i])}
    IN  IF ok = {} THEN 0 ELSE CHOOSE i \in ok : \A j \in ok : i <= j

TemplateSlide == [origin |-> "template", shapes |-> <<>>]

\* the template's slides, all kept
DropSinglePreexisting_Not(tpl) == tpl.slides

\* lines 120-123: the slides of the template that stay
DropSinglePreexisting(tpl) == IF Len(tpl.slides) = 1 THEN <<>> ELSE tpl.slides

\* add_slide: the layout's placeholders are cloned, but for the latent ones
\* (date, footer and slide number)
RECURSIVE ClonePlaceholders(_)
ClonePlaceholders(layout) ==
    IF layout = <<>> THEN <<>>
    ELSE (IF Head(layout) \in {PH_DATE, PH_FOOTER, PH_SLIDE_NUMBER} THEN <<>>
          ELSE <<[type |-> Head(layout), text |-> <<>>]>>)
         \o ClonePlaceholders(Tail(layout))

FirstShape(shapes, types) ==
    LET hits == {i \in 1..Len(shapes) : shapes[i].type \in types}
    IN  IF hits = {} THEN 0 ELSE CHOOSE i \in hits : \A j \in hits : i <= j

\* text_frame.clear(), then one paragraph per point
Paragraphs(points) == << <<>> >> \o points

\* lines 126-155 for one slide
RenderSlide(layout, sl) ==
    LET s0 == ClonePlaceholders(layout)
        t == FirstShape(s0, {PH_TITLE, PH_CENTER_TITLE})
        s1 == IF t # 0 THEN [s0 EXCEPT ![t].text = <<sl.title>>] ELSE s0
        b == FirstShape(s1, {PH_BODY})
        s2 == IF b # 0 THEN [s1 EXCEPT ![b].text = Paragraphs(sl.content)]
              ELSE IF s1 # <<>> THEN [s1 EXCEPT ![1].text = Paragraphs(sl.content)]
              ELSE s1
    IN  [origin |-> "generated", shapes |-> s2]

\* lines 120-155: the deck held in memory before prs.save
BuildDeck(tpl, sls) ==
    LET layout == tpl.layouts[ContentLayout(tpl)]
    IN  DropSinglePreexisting(tpl) \o [i \in 1..Len(sls) |-> RenderSlide(layout, sls[i])]

\* lines 106-158: [exc, deck], deck the deck written to filename.  io says
\* whether the template can be read and the deck written.
create_presentation_with_template(sls, tpl, io) ==
    IF io = "template_unreadable"
    THEN [exc |-> "TemplateUnreadable", deck |-> <<>>]
    ELSE IF ContentLayout(tpl) = 0
    THEN [exc |-> "NoSuitableLayout", deck |-> <<>>]
    ELSE IF io = "save_fails"
    THEN [exc |-> "SaveFailed", deck |-> <<>>]
    ELSE [exc |-> "none", deck |-> BuildDeck(tpl, sls)]

LayoutKinds ==
    { <<PH_CENTER_TITLE, PH_SUBTITLE>>, <<PH_TITLE, PH_OBJECT>>,
      <<PH_DATE, PH_TITLE, PH_BODY, PH_FOOTER, PH_SLIDE_NUMBER>>,
      <<PH_BODY, PH_TITLE>>, <<PH_TITLE>>, <<PH_DATE, PH_OBJECT, PH_FOOTER>> }

RECURSIVE SeqsUpTo(_, _)
SeqsUpTo(S, n) ==
    IF n = 0 THEN {<<>>}
    ELSE LET shorter == SeqsUpTo(S, n - 1)
         IN  shorter \cup {Append(q, x) : q \in shorter, x \in S}

Templates ==
    { [layouts |-> ls, slides |-> [i \in 1..n |-> TemplateSlide]] :
          ls \in SeqsUpTo(LayoutKinds, MaxLayouts), n \in 0..MaxPre }
NoTemplate == [layouts |-> <<>>, slides |-> <<>>]
MainTemplates ==
    { [layouts |-> << <<PH_CENTER_TITLE, PH_SUBTITLE>>,
                      <<PH_DATE, PH_TITLE, PH_BODY, PH_FOOTER, PH_SLIDE_NUMBER>> >>,
       slides |-> <<TemplateSlide>>],
      [layouts |-> << <<PH_TITLE, PH_OBJECT>> >>, slides |-> <<TemplateSlide>>] }
IOResults == {"ok", "template_unreadable", "save_fails"}

(***************************************************************************)
(* Prompts.                                                                *)
(***************************************************************************)
Pieces ==
    { <<"2">>, <<"0">>, <<"5", "-", "s", "l", "i", "d", "e">>, <<"-">>, <<" ">>,
      <<"S", "l", "i", "d", "e">>, <<"s">>, <<"s", "l">>, <<"i", "d", "e">>,
      <<"\f">>, <<VT>> }

RECURSIVE Concats(_, _)
Concats(S, n) ==
    IF n = 0 THEN {<<>>}
    ELSE LET shorter == Concats(S, n - 1)
         IN  shorter \cup {q \o x : q \in shorter, x \in S}

\* a count of n digits before " slides"
LongCount(n) == [i \in 1..n |-> "9"] \o <<" ", "s", "l", "i", "d", "e", "s">>
LongPrompts == {LongCount(INT_MAX_STR_DIGITS), LongCount(INT_MAX_STR_DIGITS + 1)}

Prompts == Concats(Pieces, MaxPieces) \cup LongPrompts

MainPrompts ==
    { <<" ", "\f", VT, "\n", RS>>,
      <<FS, "A", " ", "1", "2", "-", "S", "l", "i", "d", "e", "s", " ", "A", "I", "\f", US>>,
      <<"A", "I">>,
      LongCount(INT_MAX_STR_DIGITS + 1) }

(***************************************************************************)
(* The handler of the "Generate Presentation" button (lines 215-259).      *)
(***************************************************************************)
InitWith(p, live) ==
    /\ pc = "idle"
    /\ prompt = p
    /\ use_live_info = live
    /\ slide_count = 0
    /\ clean_topic = <<>>
    /\ user_prompt = <<>>
    /\ search = "not_run"
    /\ attempt = 0
    /\ log = <<>>
    /\ outcomes = <<>>
    /\ lastResult = NoResult
    /\ slides = <<>>
    /\ error = "none"
    /\ tmp_created = FALSE
    /\ template = NoTemplate
    /\ deck = <<>>

Init == \E p \in MainPrompts, live \in BOOLEAN : InitWith(p, live)

\* lines 216-217, and lines 52-65 of generate_slide_content; an exception
\* of line 52 ends the request in the handler's except clause (line 256)
ClickGenerate ==
    /\ pc = "idle"
    /\ IF Strip(prompt) = <<>>
       THEN /\ pc' = "warned"
            /\ UNCHANGED <<slide_count, clean_topic, user_prompt, error>>
       ELSE LET r == extract_slide_count(prompt)
            IN  IF r.exc # "none"
                THEN /\ pc' = "failed"
                     /\ error' = r.exc
                     /\ UNCHANGED <<slide_count, clean_topic, user_prompt>>
                ELSE /\ slide_count' = r.val
                     /\ clean_topic' = CleanTopic(prompt)
                     /\ user_prompt' = BasePrompt(CleanTopic(prompt))
                     /\ pc' = IF use_live_info THEN "search" ELSE "attempt"
                     /\ UNCHANGED error
    /\ UNCHANGED <<prompt, use_live_info, search, attempt, log, outcomes,
                   lastResult, slides, tmp_created, template, deck>>

\* lines 66-69: the search backend answers or raises
SearchDone(o) ==
    /\ pc = "search"
    /\ LET r == fetch_search_snippets(o)
       IN  IF r.exc # "none"
           THEN /\ pc' = "failed"
                /\ error' = r.exc
                /\ UNCHANGED user_prompt
           ELSE /\ pc' = "attempt"
                /\ user_prompt' = WithContext(user_prompt, r.val)
                /\ UNCHANGED error
    /\ search' = IF o.raised THEN "raised" ELSE "ok"
    /\ UNCHANGED <<prompt, use_live_info, slide_count, clean_topic, attempt, log,
                   outcomes, lastResult, slides, tmp_created, template, deck>>

\* what the attempt adds to the log: the call, and the warning and the sleep
\* of the except clause (lines 101-102)
AttemptEvents(kind) ==
    <<"call">> \o (IF Noticed(kind) THEN <<"warn", "sleep">> ELSE <<>>)

\* one pass of the loop of lines 71-102, and line 104 after the last pass
Attempt(result) ==
    /\ pc = "attempt"
    /\ attempt < MAX_ATTEMPTS
    /\ LET o == AttemptOutcome(result)
       IN  /\ log' = log \o AttemptEvents(o.kind)
           /\ outcomes' = Append(outcomes, o.kind)
           /\ lastResult' = result
           /\ CASE o.kind = "returned" ->
                     /\ slides' = o.slides
                     /\ pc' = "render"
                     /\ UNCHANGED <<attempt, error>>
                [] o.kind = "raised" ->
                     /\ error' = o.exc
                     /\ pc' = "failed"
                     /\ UNCHANGED <<attempt, slides>>
                [] OTHER ->
                     IF attempt + 1 < MAX_ATTEMPTS
                     THEN /\ attempt' = attempt + 1
                          /\ UNCHANGED <<pc, slides, error>>
                     ELSE /\ error' = "GenerationFailed"
                          /\ pc' = "failed"
                          /\ UNCHANGED <<attempt, slides>>
    /\ UNCHANGED <<prompt, use_live_info, slide_count, clean_topic, user_prompt,
                   search, tmp_created, template, deck>>

\* lines 233-234: the temporary file, then create_presentation_with_template
Render(tpl, io) ==
    /\ pc = "render"
    /\ tmp_created' = TRUE
    /\ template' = tpl
    /\ LET r == create_presentation_with_template(slides, tpl, io)
       IN  IF r.exc # "none"
           THEN /\ error' = r.exc
                /\ pc' = "failed"
                /\ UNCHANGED deck
           ELSE /\ deck' = r.deck
                /\ pc' = "done"
                /\ UNCHANGED error
    /\ UNCHANGED <<prompt, use_live_info, slide_count, clean_topic, user_prompt,
                   search, attempt, log, outcomes, lastResult, slides>>

Next ==
    \/ ClickGenerate
    \/ \E o \in SearchOutcomes : SearchDone(o)
    \/ \E r \in BackendResults : Attempt(r)
    \/ \E tpl \in MainTemplates, io \in IOResults : Render(tpl, io)

Spec == Init /\ [][Next]_vars

\* the prompt interpreter alone, over every prompt of at most MaxPieces pieces
PromptInit == \E p \in Prompts : InitWith(p, FALSE)
PromptNext == ClickGenerate
SpecPrompt == PromptInit /\ [][PromptNext]_vars

\* the deck renderer alone, over every template, from the states in which
\* generate_slide_content has just returned on its first attempt
RenderInit ==
    \E r \in BackendResults :
        /\ AttemptOutcome(r).kind = "returned"
        /\ pc = "render"
        /\ prompt = <<"A", "I">>
        /\ use_live_info = FALSE
        /\ slide_count = extract_slide_count(<<"A", "I">>).val
        /\ clean_topic = CleanTopic(<<"A", "I">>)
        /\ user_prompt = BasePrompt(CleanTopic(<<"A", "I">>))
        /\ search = "not_run"
        /\ attempt = 0
        /\ log = AttemptEvents("returned")
        /\ outcomes = <<"returned">>
        /\ lastResult = r
        /\ slides = AttemptOutcome(r).slides
        /\ error = "none"
        /\ tmp_created = FALSE
        /\ template = NoTemplate
        /\ deck = <<>>
RenderNext == \E tpl \in Templates, io \in IOResults : Render(tpl, io)
SpecRender == RenderInit /\ [][RenderNext]_vars

(***************************************************************************)
(* Vocabulary of the properties.                                           *)
(***************************************************************************)
Last(q) == q[Len(q)]
Calls == Cardinality({i \in 1..Len(log) : log[i] = "call"})
Returned == outcomes # <<>> /\ Last(outcomes) = "returned"

\* a fragment <integer>, hyphens and spaces, "slide" (in any case) starts at
\* i of s
FragmentAt(s, i) ==
    /\ s[i] \in Digits
    /\ \E k \in (i + 1)..(Len(s) - 4) :
        /\ [j \in 1..5 |-> LowerChar(s[k + j - 1])] = SLIDE
        /\ \A m \in i..(k - 1) : s[m] \in Digits \cup Separators
        /\ \A m \in i..(k - 2) : s[m] \in Separators => s[m + 1] \in Separators

\* s holds <integer>, optional hyphens and spaces, "slide"
HasCountFragment(s) == \E i \in 1..Len(s) : FragmentAt(s, i)

\* the digits of the integer of the leftmost fragment of s
LeftmostK(s) ==
    LET i == CHOOSE a \in 1..Len(s) :
                 FragmentAt(s, a) /\ \A b \in 1..(a - 1) : ~FragmentAt(s, b)
        j == CHOOSE b \in i..(Len(s) - 1) :
                 /\ s[b + 1] \notin Digits
                 /\ \A m \in i..b : s[m] \in Digits
    IN  SubSeq(s, i, j)

Interpreted == pc \in {"search", "attempt"}

\* the entries of the slides array of the carved JSON of a response, when
\* the response has them
Carved(result) ==
    LET c == StripToks(result.content)
    IN  IF Find(c, "lbrace") = -1 \/ RFind(c, "rbrace") = -1 THEN ParseFail
        ELSE JsonLoads(Slice(c, Find(c, "lbrace"), RFind(c, "rbrace") + 1))
HasEntries(result) ==
    /\ result.status = "ok"
    /\ Carved(result).ok
    /\ HasKey(Carved(result).val, K_slides)
    /\ GetKey(Carved(result).val, K_slides).t = "arr"
Entries(result) == GetKey(Carved(result).val, K_slides).items

\* an entry with a non-empty title and at least one non-empty bullet
ValidEntry(e) ==
    /\ e.t = "obj"
    /\ HasKey(e, K_title) /\ GetKey(e, K_title).t = "str"
    /\ Strip(GetKey(e, K_title).s) # <<>>
    /\ HasKey(e, K_content) /\ GetKey(e, K_content).t = "arr"
    /\ \E i \in 1..Len(GetKey(e, K_content).items) :
           /\ GetKey(e, K_content).items[i].t = "str"
           /\ Strip(GetKey(e, K_content).items[i].s) # <<>>
HasValidEntry(result) ==
    HasEntries(result) /\ \E i \in 1..Len(Entries(result)) : ValidEntry(Entries(result)[i])

(***************************************************************************)
(* C1.                                                                     *)
(***************************************************************************)
Clamp(k) == IF k < 1 THEN 1 ELSE IF k > MAX_SLIDES THEN MAX_SLIDES ELSE k

\* min(max(1, k), MAX_SLIDES) for the integer k written with the digits ds:
\* an integer of more than two digits, leading zeros apart, is above
\* MAX_SLIDES
ClampedCount(ds) ==
    LET nz == {i \in 1..Len(ds) : ds[i] # "0"}
    IN  IF nz = {} THEN 1
        ELSE LET f == CHOOSE i \in nz : \A j \in nz : i <= j
             IN  IF Len(ds) - f + 1 > 2 THEN MAX_SLIDES
                 ELSE Clamp(NumValue(SubSeq(ds, f, Len(ds))))

\* C1: for a prompt that holds "<k>-slide" or "<k> slide" the prompt
\* interpreter returns the slide count k clamped to [1, MAX_SLIDES], and the
\* cleaned topic holds no <integer>, hyphens and spaces, "slide".
C1_AsStated ==
    (pc # "idle" /\ HasCountFragment(prompt)) =>
        /\ Interpreted
        /\ slide_count = ClampedCount(LeftmostK(prompt))
        /\ ~HasCountFragment(clean_topic)

(***************************************************************************)
(* C2.                                                                     *)
(***************************************************************************)
\* the attempt found no JSON to carve, or the carved text did not parse
InvalidJson(kind) == kind \in {"no_braces", "decode_error"}
AllInvalidJson ==
    /\ Len(outcomes) = MAX_ATTEMPTS
    /\ \A i \in 1..Len(outcomes) : InvalidJson(outcomes[i])

\* C2: when all 3 attempts return invalid JSON the request has failed with
\* the generation-failure error after exactly 3 backend calls, there is no
\* 4th call, and nothing was rendered: no temporary file, no template
\* opened, no deck saved.
C2_NoPartialWrite ==
    /\ Calls <= 3
    /\ Len(outcomes) = 3 /\ (\A i \in 1..3 : InvalidJson(outcomes[i])) =>
           /\ pc = "failed"
           /\ error = "GenerationFailed"
           /\ Calls = 3
           /\ ~ENABLED (\E r \in BackendResults : Attempt(r))
           /\ slides = <<>>
           /\ tmp_created = FALSE
           /\ template = NoTemplate
           /\ deck = <<>>

\* three attempts of invalid JSON, of both sorts, have been made
C2_Witness ==
    /\ AllInvalidJson
    /\ \E i \in 1..Len(outcomes) : outcomes[i] = "no_braces"
    /\ \E i \in 1..Len(outcomes) : outcomes[i] = "decode_error"
    /\ pc = "failed"

(***************************************************************************)
(* C3.                                                                     *)
(***************************************************************************)
\* C3: invalid output on attempt 1 and, on attempt 2, valid JSON with at
\* least one valid slide: generate_slide_content has returned, after two
\* calls, slides that are all built from attempt 2's entries.
C3_RetryRecovers ==
    (/\ Len(outcomes) = 2
     /\ Retried(outcomes[1])
     /\ HasValidEntry(lastResult)) =>
        /\ Returned
        /\ Calls = 2
        /\ slides # <<>>
        /\ \A i \in 1..Len(slides) :
               \E j \in 1..Len(Entries(lastResult)) :
                   /\ SlideOf(Entries(lastResult)[j]).keep
                   /\ SlideOf(Entries(lastResult)[j]).slide = slides[i]

(***************************************************************************)
(* C4.                                                                     *)
(***************************************************************************)
Trimmed(txt) == txt # <<>> /\ txt[1] \notin Whitespace /\ Last(txt) \notin Whitespace

\* C4: whenever generate_slide_content has returned, the sequence is not
\* empty and every slide of it has a non-empty trimmed title and at least
\* one bullet, each bullet non-empty and trimmed.
C4_ValidSlidesOnly ==
    Returned =>
        /\ slides # <<>>
        /\ \A i \in 1..Len(slides) :
               /\ Trimmed(slides[i].title)
               /\ slides[i].content # <<>>
               /\ \A j \in 1..Len(slides[i].content) : Trimmed(slides[i].content[j])

\* it returned fewer slides than the response had entries: entries were
\* dropped, and a kept title had to be trimmed
C4_Witness ==
    /\ Returned
    /\ HasEntries(lastResult)
    /\ Len(slides) = 2
    /\ Len(Entries(lastResult)) = 5
    /\ slides[2].title = <<"B">>

(***************************************************************************)
(* C5.                                                                     *)
(***************************************************************************)
NumberedSlide(i) ==
    [title |-> <<"T">> \o Numeral(i), content |-> << <<"b">> \o Numeral(i) >>]

\* C5: a returned sequence has at most MAX_SLIDES slides, and for a response
\* of n valid entries numbered 1..n (after any invalid ones) it is the
\* slides numbered 1..min(n, MAX_SLIDES), in that order.
C5_AtMostMaxSlides ==
    Returned =>
        /\ Len(slides) <= MAX_SLIDES
        /\ \A lead \in {<<>>, <<eEmptyTitle>>},
              n \in (MAX_SLIDES - 1)..(MAX_SLIDES + MaxExtra) :
               lastResult = TextResult(LongText(lead, n)) =>
                   slides = [i \in 1..Min(n, MAX_SLIDES) |-> NumberedSlide(i)]

\* a response of more than MAX_SLIDES valid entries was cut to MAX_SLIDES
C5_Witness ==
    /\ Returned
    /\ HasEntries(lastResult)
    /\ Cardinality({i \in 1..Len(Entries(lastResult)) : ValidEntry(Entries(lastResult)[i])})
           > MAX_SLIDES
    /\ Len(slides) = MAX_SLIDES

(***************************************************************************)
(* C6.                                                                     *)
(***************************************************************************)
TitleText(sl) ==
    LET t == FirstShape(sl.shapes, {PH_TITLE})
    IN  IF t = 0 THEN << >> ELSE sl.shapes[t].text

\* C6: from a template with exactly one slide and a layout with a title and
\* a body placeholder, the saved deck has as many slides as the input: the
\* template's slide is gone and there is one generated slide per input
\* slide, in the input's order.
C6_DeckMatchesInput ==
    (/\ pc = "done"
     /\ Len(template.slides) = 1
     /\ \E i \in 1..Len(template.layouts) : Suitable(template.layouts[i])) =>
        /\ Len(deck) = Len(slides)
        /\ \A i \in 1..Len(deck) :
               /\ deck[i].origin = "generated"
               /\ TitleText(deck[i]) = <<slides[i].title>>

\* a deck of several slides was saved from a one-slide template
C6_Witness ==
    /\ pc = "done"
    /\ Len(template.slides) = 1
    /\ Len(slides) = 2
    /\ Len(deck) = 2
    /\ deck[2].origin = "generated"

(***************************************************************************)
(* C7.                                                                     *)
(***************************************************************************)
\* C7: once the search backend has raised, the request has gone on to the
\* generation attempts with the user message of a request without live
\* context, and no failure of the request comes from the search.
C7_SearchFailureIgnored ==
    search = "raised" =>
        /\ use_live_info
        /\ user_prompt = <<"Create presentation about: ">> \o clean_topic
        /\ pc = "attempt" \/ outcomes # <<>>
        /\ error \in {"none", "GenerationFailed", "APIError", "AttributeError",
                      "TypeError", "TemplateUnreadable", "NoSuitableLayout",
                      "SaveFailed"}

\* the search raised and the request went on to save a deck
C7_Witness ==
    /\ search = "raised"
    /\ use_live_info
    /\ pc = "done"
    /\ deck # <<>>

(***************************************************************************)
(* C8.                                                                     *)
(***************************************************************************)
\* C8: an attempt whose response carves to parseable JSON with a slides
\* array that has at least one valid entry returns, and returns the valid
\* entries; its malformed entries are dropped without an error.
C8_DegradesGracefully ==
    (outcomes # <<>> /\ HasValidEntry(lastResult)) =>
        /\ Returned
        /\ Len(slides) =
               Min(MAX_SLIDES,
                   Cardinality({i \in 1..Len(Entries(lastResult)) :
                                    ValidEntry(Entries(lastResult)[i])}))

(***************************************************************************)
(* C9.                                                                     *)
(***************************************************************************)
\* C9: every backend call that is followed by another one is followed at
\* once by the "retrying" notice and the delay.
C9_NoticeBeforeRetry ==
    \A i \in 1..Len(log) :
        (log[i] = "call" /\ \E j \in (i + 1)..Len(log) : log[j] = "call") =>
            /\ log[i + 1] = "warn"
            /\ log[i + 2] = "sleep"

(***************************************************************************)
(* C10.                                                                    *)
(***************************************************************************)
OtherErrors == {"APIError", "AttributeError", "TypeError"}

\* C10 as stated: an error that is neither a JSON nor a key error, raised
\* during attempt 1 or 2, is followed by the notice and the delay and leaves
\* the request in its retry loop.
C10_AsStated ==
    (outcomes # <<>> /\ Last(outcomes) = "raised" /\ Len(outcomes) < MAX_ATTEMPTS) =>
        /\ pc = "attempt"
        /\ error = "none"
        /\ Len(log) >= 2
        /\ log[Len(log) - 1] = "warn"
        /\ Last(log) = "sleep"

\* C10 as amended: an error that is neither a JSON nor a key error, raised
\* during an attempt, ends the request at once with that error: no notice,
\* no delay, no further backend call, nothing returned and nothing rendered.
\* Only JSON and key errors are followed by the notice and the delay.
C10_Amended ==
    /\ (outcomes # <<>> /\ Last(outcomes) = "raised") =>
           /\ pc = "failed"
           /\ error \in OtherErrors
           /\ Last(log) = "call"
           /\ ~ENABLED (\E r \in BackendResults : Attempt(r))
           /\ slides = <<>>
           /\ tmp_created = FALSE
    /\ lastResult.status \in {"api_error", "null_content"} =>
           Last(outcomes) = "raised"
    /\ Cardinality({i \in 1..Len(log) : log[i] = "warn"})
           = Cardinality({i \in 1..Len(outcomes) : Noticed(outcomes[i])})

\* the backend call raised on the second attempt, after a retried first one
C10_Witness ==
    /\ Len(outcomes) = 2
    /\ Noticed(outcomes[1])
    /\ lastResult.status = "api_error"
    /\ pc = "failed"
    /\ error = "APIError"

====
